---- MODULE Spec2Model ----
(***************************************************************************)
(* Model of the forecast generator (generateForecastTransactions, in its   *)
(* two source variants) and of the year-scoped balance aggregator          *)
(* (getBalanceData) of sheet-finance.                                      *)
(*                                                                         *)
(* Strings are sequences of one-character strings, so that formatting,     *)
(* splitting, substring and parseInt are computed as the code computes     *)
(* them.  A JavaScript Date is a record [year, month (0-based), date,      *)
(* time]; time is 0 for local midnight and 1 for any later time of day,    *)
(* which is all the code's comparisons can observe: every Date the code    *)
(* builds from a YYYY-MM-DD string is at midnight, and only `new Date()`   *)
(* carries a time of day.                                                  *)
(***************************************************************************)
EXTENDS Integers, Sequences, FiniteSets, TLC

VARIABLES
    pc,                     \* "ready" before the call, "done" after it
    variant,                \* which source variant of the generator runs
    today,                  \* the value of `new Date()` during the call
    monthsAhead,            \* argument of generateForecastTransactions
    recurringTransactions,  \* argument of generateForecastTransactions
    forecasts,              \* value returned by generateForecastTransactions
    loopDate,               \* the loop over one definition: its currentDate,
    loopCount,              \*   its occurrenceCount and
    pushed,                 \*   the number of forecasts.push it has made
    year,                   \* argument of getBalanceData
    transactions,           \* argument of getBalanceData; the loaded transactions
    goalTransactions,       \* argument of getBalanceData
    forecastTransactions,   \* argument of getBalanceData
    bills,                  \* the bills the callers pass to getBalanceData
    balanceData,            \* value returned by getBalanceData
    metas,                  \* the rows of the sheet 'metas'
    movimentacoes_metas,    \* the rows of the sheet 'movimentacoes_metas'
    clock,                  \* Date.now()
    returned,               \* what the last goal-transaction call resolved to
    categories,             \* the categories of the finance context
    isConnected,            \* whether the context works on a spreadsheet
    deletingId,             \* Categorias: the category of the open dialog
    deleteCategoryCalls,    \* the ids deleteCategory was called with
    toast,                  \* the last toast shown
    config,                 \* useGoogleSheetsConfig: the credentials in use
    isInitializing,         \* useFinance: a connectToSheets call is in flight
    timer,                  \* the auto-connect timeout is pending
    attempt,                \* who called connectToSheets, and the request awaited
    autoConnectCalls,       \* calls of connectToSheets by the auto-connect effect
                            \*   since the credentials changed or the user connected
    authStorage,            \* localStorage item 'google_auth_data'
    now,                    \* Date.now() of the token functions, in ms
    tokenCall,              \* the getValidToken call: what it read, where it is
    issued                  \* the number of tokens Google has issued

forecastVars == <<variant, today, monthsAhead, recurringTransactions, forecasts>>
loopVars     == <<loopDate, loopCount, pushed>>
balanceVars  == <<year, transactions, goalTransactions, forecastTransactions, bills,
                  balanceData>>
goalVars     == <<metas, movimentacoes_metas, clock, returned>>
categoryVars == <<categories, isConnected, deletingId, deleteCategoryCalls, toast>>

connectVars  == <<config, isInitializing, timer, attempt, autoConnectCalls>>
tokenVars    == <<authStorage, now, tokenCall, issued>>

vars == <<pc, forecastVars, loopVars, balanceVars, goalVars, categoryVars, connectVars,
          tokenVars>>

(***************************************************************************)
(* Strings                                                                 *)
(***************************************************************************)
Digits == <<"0", "1", "2", "3", "4", "5", "6", "7", "8", "9">>

IsDigit(c) == \E i \in 1..10 : Digits[i] = c

DigitVal(c) == (CHOOSE i \in 1..10 : Digits[i] = c) - 1

\* The value JavaScript calls NaN; no number of the model equals it.
NaN == 0 - 2^30

RECURSIVE NatToString(_)
NatToString(n) ==
    IF n < 10 THEN <<Digits[n + 1]>>
    ELSE NatToString(n \div 10) \o <<Digits[(n % 10) + 1]>>

\* String(n) and `${n}` for an integer n
String(n) == IF n < 0 THEN <<"-">> \o NatToString(0 - n) ELSE NatToString(n)

RECURSIVE padStart(_, _, _)
padStart(s, len, ch) == IF Len(s) >= len THEN s ELSE padStart(<<ch>> \o s, len, ch)

\* s.substring(a, b) for 0 <= a <= b
substring(s, a, b) ==
    LET e == IF b > Len(s) THEN Len(s) ELSE b
    IN  IF a >= e THEN <<>> ELSE SubSeq(s, a + 1, e)

startsWith(s, p) == Len(p) <= Len(s) /\ SubSeq(s, 1, Len(p)) = p

\* s.split('-')
RECURSIVE split(_)
split(s) ==
    IF \A i \in 1..Len(s) : s[i] # "-" THEN <<s>>
    ELSE LET k == CHOOSE i \in 1..Len(s) :
                      s[i] = "-" /\ \A j \in 1..(i - 1) : s[j] # "-"
         IN  <<SubSeq(s, 1, k - 1)>> \o split(SubSeq(s, k + 1, Len(s)))

RECURSIVE DigitsValue(_)
DigitsValue(s) ==
    IF s = <<>> THEN 0
    ELSE 10 * DigitsValue(SubSeq(s, 1, Len(s) - 1)) + DigitVal(s[Len(s)])

\* the longest prefix of s made of digits
RECURSIVE DigitPrefix(_)
DigitPrefix(s) ==
    IF s = <<>> \/ ~IsDigit(s[1]) THEN <<>>
    ELSE <<s[1]>> \o DigitPrefix(Tail(s))

\* parseInt(s, 10): optional sign, then the longest run of digits
parseInt(s) ==
    LET neg  == s # <<>> /\ s[1] = "-"
        body == IF s # <<>> /\ (s[1] = "-" \/ s[1] = "+") THEN Tail(s) ELSE s
        ds   == DigitPrefix(body)
    IN  IF ds = <<>> THEN NaN
        ELSE IF neg THEN 0 - DigitsValue(ds) ELSE DigitsValue(ds)

\* Number(s): the whole string must be a number; Number("") is 0
Number(s) ==
    IF s = <<>> THEN 0
    ELSE IF \A i \in 1..Len(s) : IsDigit(s[i]) THEN DigitsValue(s)
    ELSE NaN

(***************************************************************************)
(* JavaScript Date                                                         *)
(***************************************************************************)
IsLeapYear(y) == (y % 4 = 0 /\ y % 100 # 0) \/ y % 400 = 0

\* days of month m (0-based) of year y
DaysInMonth(y, m) ==
    IF m = 1 THEN (IF IsLeapYear(y) THEN 29 ELSE 28)
    ELSE IF m \in {3, 5, 8, 10} THEN 30 ELSE 31

InvalidDate == [year |-> 0, month |-> 0, date |-> 0, time |-> 0 - 1]

IsValidDate(dt) == dt.time >= 0

\* The Date with the given local fields: an out-of-range month carries into
\* the year, an out-of-range day rolls over into the neighbouring months.
RECURSIVE MakeDate(_, _, _, _)
MakeDate(y, m, d, t) ==
    IF m < 0 \/ m > 11 THEN MakeDate(y + (m \div 12), m % 12, d, t)
    ELSE IF d < 1 THEN
        LET py == IF m = 0 THEN y - 1 ELSE y
            pm == IF m = 0 THEN 11 ELSE m - 1
        IN  MakeDate(py, pm, d + DaysInMonth(py, pm), t)
    ELSE IF d > DaysInMonth(y, m) THEN MakeDate(y, m + 1, d - DaysInMonth(y, m), t)
    ELSE [year |-> y, month |-> m, date |-> d, time |-> t]

\* new Date(year, monthIndex, day): local midnight; years 0..99 mean 1900..1999
NewDate(y, m, d) ==
    IF y = NaN \/ m = NaN \/ d = NaN THEN InvalidDate
    ELSE MakeDate(IF y \in 0..99 THEN 1900 + y ELSE y, m, d, 0)

\* date.setMonth(m) and date.setMonth(m, d)
setMonth(dt, m) == IF IsValidDate(dt) THEN MakeDate(dt.year, m, dt.date, dt.time) ELSE dt
setMonthDay(dt, m, d) == IF IsValidDate(dt) THEN MakeDate(dt.year, m, d, dt.time) ELSE dt
setDate(dt, d) == IF IsValidDate(dt) THEN MakeDate(dt.year, dt.month, d, dt.time) ELSE dt

\* the order of getTime(); a comparison with an invalid Date is false
DateKey(dt) == ((dt.year * 12 + dt.month) * 32 + dt.date) * 2 + dt.time
DateLE(a, b) == IsValidDate(a) /\ IsValidDate(b) /\ DateKey(a) <= DateKey(b)
DateLT(a, b) == IsValidDate(a) /\ IsValidDate(b) /\ DateKey(a) < DateKey(b)
DateGE(a, b) == DateLE(b, a)
DateGT(a, b) == DateLT(b, a)

\* lexicographic a < b on strings (by UTF-16 code unit: "-" sorts before digits)
CharCode(c) == IF c = "-" THEN 0 ELSE 1 + DigitVal(c)
RECURSIVE StrLT(_, _)
StrLT(a, b) ==
    IF b = <<>> THEN FALSE
    ELSE IF a = <<>> THEN TRUE
    ELSE IF a[1] = b[1] THEN StrLT(Tail(a), Tail(b))
    ELSE CharCode(a[1]) < CharCode(b[1])

(***************************************************************************)
(* generateForecastTransactions: helpers shared by both variants           *)
(***************************************************************************)
Dash == <<"-">>

\* formatDate / formatDateToString: `${year}-${MM}-${DD}` from the local fields
formatDateToString(dt) ==
    String(dt.year) \o Dash \o padStart(String(dt.month + 1), 2, "0")
                    \o Dash \o padStart(String(dt.date), 2, "0")

\* parseDate / parseDateString: split('-').map(Number), new Date(y, m - 1, d)
parseDateString(str) ==
    LET parts == split(str)
        part(i) == IF i <= Len(parts) THEN Number(parts[i]) ELSE NaN
    IN  NewDate(part(1), IF part(2) = NaN THEN NaN ELSE part(2) - 1, part(3))

\* const endDate = new Date(today); endDate.setMonth(endDate.getMonth() + monthsAhead)
endDateOf(td, m) == setMonth(td, td.month + m)

\* variant of ForecastOf whose id is the definition's id alone
ForecastOf_NoSuffix(rt, dt, idSuffix) ==
    [id              |-> rt.id,
     recurring_id    |-> rt.id,
     data            |-> formatDateToString(dt),
     tipo            |-> rt.tipo,
     descricao       |-> rt.descricao,
     valor           |-> rt.valor,
     categoria       |-> rt.categoria,
     forma_pagamento |-> rt.forma_pagamento,
     observacao      |-> rt.observacao]

\* the object literal pushed for one occurrence; idSuffix is the date string
\* (part_002) or the occurrence counter (part_003)
ForecastOf(rt, dt, idSuffix) ==
    [id              |-> rt.id \o Dash \o idSuffix,
     recurring_id    |-> rt.id,
     data            |-> formatDateToString(dt),
     tipo            |-> rt.tipo,
     descricao       |-> rt.descricao,
     valor           |-> rt.valor,
     categoria       |-> rt.categoria,
     forma_pagamento |-> rt.forma_pagamento,
     observacao      |-> rt.observacao]

\* `fim_tipo === 'after_months' && meses_duracao`: a duration of 0 is falsy
HasDuration(rt) == rt.fim_tipo = "after_months" /\ rt.meses_duracao # 0

\* Array.prototype.sort is stable: an element is placed after every element
\* that does not compare greater than it.  Less(a, b) is "comparator < 0".
\* InsertByDate with an unstable placement: before the elements of the same date
RECURSIVE InsertByDate_Unstable(_, _, _)
InsertByDate_Unstable(x, s, v) ==
    LET Less(a, b) ==
            IF v = "part_002" THEN StrLT(a.data, b.data)
            ELSE DateLT(parseDateString(a.data), parseDateString(b.data))
    IN  IF s = <<>> THEN <<x>>
        ELSE IF ~Less(s[1], x) THEN <<x>> \o s
        ELSE <<s[1]>> \o InsertByDate_Unstable(x, Tail(s), v)

RECURSIVE InsertByDate(_, _, _)
InsertByDate(x, s, v) ==
    LET Less(a, b) ==
            IF v = "part_002" THEN StrLT(a.data, b.data)
            ELSE DateLT(parseDateString(a.data), parseDateString(b.data))
    IN  IF s = <<>> THEN <<x>>
        ELSE IF Less(x, s[1]) THEN <<x>> \o s
        ELSE <<s[1]>> \o InsertByDate(x, Tail(s), v)

RECURSIVE SortForecasts(_, _)
SortForecasts(s, v) ==
    IF s = <<>> THEN <<>>
    ELSE InsertByDate(s[Len(s)], SortForecasts(SubSeq(s, 1, Len(s) - 1), v), v)

(***************************************************************************)
(* generateForecastTransactions, variant of src/unnamed/part_003           *)
(***************************************************************************)
recurrenceMonths ==
    [mensal |-> 1, bimestral |-> 2, trimestral |-> 3, semestral |-> 6, anual |-> 12]

\* addMonths: first day of the target month, then min(original day, last day)
addMonths_003(dt, rec) ==
    IF rec \notin DOMAIN recurrenceMonths \/ ~IsValidDate(dt) THEN InvalidDate
    ELSE LET originalDay    == dt.date
             targetMonth    == dt.month + recurrenceMonths[rec]
             first          == setMonthDay(dt, targetMonth, 1)
             lastDayOfMonth == NewDate(first.year, first.month + 1, 0).date
             dayToUse       == IF originalDay < lastDayOfMonth THEN originalDay
                               ELSE lastDayOfMonth
         IN  setDate(first, dayToUse)

\* the while loop of one definition: currentDate, occurrenceCount -> pushes
RECURSIVE Expand_003(_, _, _, _, _, _)
Expand_003(rt, startDate, currentDate, occurrenceCount, endDate, td) ==
    IF ~DateLE(currentDate, endDate) THEN <<>>
    ELSE LET monthsSinceStart ==
                 (currentDate.year - startDate.year) * 12
                     + (currentDate.month - startDate.month)
         IN  IF HasDuration(rt) /\ monthsSinceStart >= rt.meses_duracao THEN <<>>
             ELSE (IF DateGE(currentDate, td)
                   THEN <<ForecastOf(rt, currentDate, String(occurrenceCount))>>
                   ELSE <<>>)
                  \o Expand_003(rt, startDate, addMonths_003(currentDate, rt.recorrencia),
                                occurrenceCount + 1, endDate, td)

\* ExpandAll_003 without the filter on ativo
RECURSIVE ExpandAll_003_NoFilter(_, _, _)
ExpandAll_003_NoFilter(rts, endDate, td) ==
    IF rts = <<>> THEN <<>>
    ELSE (LET startDate == parseDateString(Head(rts).data_inicio)
          IN  Expand_003(Head(rts), startDate, startDate, 0, endDate, td))
         \o ExpandAll_003_NoFilter(Tail(rts), endDate, td)

\* .filter(rt => rt.ativo).forEach(...)
RECURSIVE ExpandAll_003(_, _, _)
ExpandAll_003(rts, endDate, td) ==
    IF rts = <<>> THEN <<>>
    ELSE (IF Head(rts).ativo
          THEN LET startDate == parseDateString(Head(rts).data_inicio)
               IN  Expand_003(Head(rts), startDate, startDate, 0, endDate, td)
          ELSE <<>>)
         \o ExpandAll_003(Tail(rts), endDate, td)

generateForecastTransactions_003(rts, m, td) ==
    SortForecasts(ExpandAll_003(rts, endDateOf(td, m), td), "part_003")

(***************************************************************************)
(* generateForecastTransactions, variant of src/unnamed/part_002           *)
(***************************************************************************)
maxOccurrences == 1000

\* addMonths: result.setMonth(result.getMonth() + months), the day rolls over
addMonths_002(dt, months) == setMonth(dt, dt.month + months)

\* the switch on recurring.recorrencia
RecurrenceStep_002 ==
    [mensal |-> 1, bimestral |-> 2, trimestral |-> 3, semestral |-> 6, anual |-> 12]

RECURSIVE Expand_002(_, _, _, _)
Expand_002(recurring, currentDate, maxDate, occurrenceCount) ==
    IF ~(DateLE(currentDate, maxDate) /\ occurrenceCount < maxOccurrences) THEN <<>>
    ELSE <<ForecastOf(recurring, currentDate, formatDateToString(currentDate))>>
         \o (IF recurring.recorrencia \in DOMAIN RecurrenceStep_002
             THEN Expand_002(recurring,
                             addMonths_002(currentDate,
                                           RecurrenceStep_002[recurring.recorrencia]),
                             maxDate, occurrenceCount + 1)
             ELSE <<>>)

\* the body of recurringTransactions.forEach
ExpandOne_002(recurring, endDate, td) ==
    LET startDate    == parseDateString(recurring.data_inicio)
        hasLimit     == HasDuration(recurring)
        endDateLimit == addMonths_002(startDate, recurring.meses_duracao)
        shouldEnd    == hasLimit /\ DateLT(endDateLimit, td)
        currentDate  == IF DateGT(startDate, td) THEN startDate ELSE td
        maxDate      == IF hasLimit /\ DateLT(endDateLimit, endDate)
                        THEN endDateLimit ELSE endDate
    IN  IF ~recurring.ativo THEN <<>>
        ELSE IF DateGT(startDate, endDate) THEN <<>>
        ELSE IF shouldEnd THEN <<>>
        ELSE Expand_002(recurring, currentDate, maxDate, 0)

RECURSIVE ExpandAll_002(_, _, _)
ExpandAll_002(rts, endDate, td) ==
    IF rts = <<>> THEN <<>>
    ELSE ExpandOne_002(Head(rts), endDate, td) \o ExpandAll_002(Tail(rts), endDate, td)

generateForecastTransactions_002(rts, m, td) ==
    SortForecasts(ExpandAll_002(rts, endDateOf(td, m), td), "part_002")

\* the generator of the variant under check
generateForecastTransactions(v, rts, m, td) ==
    IF v = "part_002" THEN generateForecastTransactions_002(rts, m, td)
    ELSE generateForecastTransactions_003(rts, m, td)

(***************************************************************************)
(* getBalanceData (src/src/data/mockData.ts)                               *)
(***************************************************************************)
RECURSIVE Sum(_)
Sum(s) == IF s = <<>> THEN 0 ELSE Head(s) + Sum(Tail(s))

\* the sum of valor over the records of list
SumValor(list) == Sum([i \in 1..Len(list) |-> list[i].valor])

\* parseDateString of getBalanceData: split('-'), parseInt of each part
parseDateParts(dateString) ==
    LET parts == split(dateString)
        part(i) == IF i <= Len(parts) THEN parseInt(parts[i]) ELSE NaN
    IN  [year |-> part(1), month |-> part(2), day |-> part(3)]

createDateFromString(dateString) ==
    LET p == parseDateParts(dateString)
    IN  NewDate(p.year, IF p.month = NaN THEN NaN ELSE p.month - 1, p.day)

\* const selectedYear = year || new Date().getFullYear(); 0 stands for an
\* omitted (or zero) year argument
selectedYearOf(y, td) == IF y = 0 THEN td.year ELSE y

\* `${y}-${String(month).padStart(2, '0')}`
monthKeyOf(y, month) == String(y) \o Dash \o padStart(String(month), 2, "0")

\* toLocaleDateString('pt-BR', {month: 'short', year: '2-digit'}) of the first
\* day of the month, kept as the month and the two-digit year it prints
monthLabelOf(y, month) ==
    LET monthDate == NewDate(y, month - 1, 1)
    IN  [mes |-> monthDate.month + 1, ano |-> monthDate.year % 100]

filteredTransactionsOf(txs, selectedYear) ==
    SelectSeq(txs, LAMBDA t : parseDateParts(t.data).year = selectedYear)

\* filteredGoalTransactionsOf keeping the withdrawals too
filteredGoalTransactionsOf_AllKinds(gts, selectedYear) ==
    SelectSeq(gts, LAMBDA gt : parseDateParts(gt.data).year = selectedYear)

filteredGoalTransactionsOf(gts, selectedYear) ==
    SelectSeq(gts, LAMBDA gt : parseDateParts(gt.data).year = selectedYear
                               /\ gt.tipo = "deposito")

\* filteredForecastTransactionsOf keeping the occurrences of a past year too
filteredForecastTransactionsOf_PastYearToo(fts, selectedYear, td) ==
    LET isCurrentYear == selectedYear = td.year
        keep(ft) ==
            IF parseDateParts(ft.data).year = selectedYear
            THEN (IF isCurrentYear THEN DateGE(createDateFromString(ft.data), td)
                  ELSE TRUE)
            ELSE FALSE
    IN  SelectSeq(fts, keep)

filteredForecastTransactionsOf(fts, selectedYear, td) ==
    LET currentYear   == td.year
        isFutureYear  == selectedYear > currentYear
        isCurrentYear == selectedYear = currentYear
        keep(ft) ==
            IF parseDateParts(ft.data).year = selectedYear
            THEN (IF isCurrentYear THEN DateGE(createDateFromString(ft.data), td)
                  ELSE TRUE)
            ELSE FALSE
    IN  IF isFutureYear \/ isCurrentYear THEN SelectSeq(fts, keep) ELSE <<>>

\* initialAccumulatedOf carrying the net of every earlier year, not only of the
\* previous one
initialAccumulatedOf_AllHistory(txs, selectedYear) ==
    SumValor(SelectSeq(txs, LAMBDA t : parseDateParts(t.data).year < selectedYear
                             /\ t.tipo = "Receita"))
    - SumValor(SelectSeq(txs, LAMBDA t : parseDateParts(t.data).year < selectedYear
                               /\ t.tipo # "Receita"))

\* the opening balance: the net of the twelve months of the previous year
initialAccumulatedOf(txs, selectedYear) ==
    IF selectedYear > 1
    THEN LET previousYear == selectedYear - 1
             prevYearTransactions ==
                 SelectSeq(txs, LAMBDA t : parseDateParts(t.data).year = previousYear)
             monthNet(month) ==
                 LET monthKey == monthKeyOf(previousYear, month)
                     inMonth(t) == substring(t.data, 0, 7) = monthKey
                 IN  SumValor(SelectSeq(prevYearTransactions,
                              LAMBDA t : inMonth(t) /\ t.tipo = "Receita"))
                     - SumValor(SelectSeq(prevYearTransactions,
                                LAMBDA t : inMonth(t) /\ t.tipo # "Receita"))
         IN  Sum([month \in 1..12 |-> monthNet(month)])
    ELSE 0

\* monthDataOf counting every expense as an investment
monthDataOf_AllInvested(monthKey, selectedYear, fTxs, fGts, fFts) ==
    LET prefix == String(selectedYear) \o Dash
        lands(r) == /\ startsWith(substring(r.data, 0, 7), prefix)
                    /\ substring(r.data, 0, 7) = monthKey
        entradas == SumValor(SelectSeq(fTxs, LAMBDA t : lands(t) /\ t.tipo = "Receita"))
                    + SumValor(SelectSeq(fFts, LAMBDA t : lands(t) /\ t.tipo = "Receita"))
        saidas   == SumValor(SelectSeq(fTxs, LAMBDA t : lands(t) /\ t.tipo # "Receita"))
                    + SumValor(SelectSeq(fFts, LAMBDA t : lands(t) /\ t.tipo # "Receita"))
    IN  [entradas |-> entradas, saidas |-> saidas, investimentos |-> saidas,
         investimentos_metas |-> SumValor(SelectSeq(fGts, lands))]

\* the entry of monthlyMap under monthKey after the three processing passes;
\* a record whose month key does not start with `${selectedYear}-` or is no key
\* of the map is dropped
monthDataOf(monthKey, selectedYear, fTxs, fGts, fFts) ==
    LET prefix == String(selectedYear) \o Dash
        lands(r) == /\ startsWith(substring(r.data, 0, 7), prefix)
                    /\ substring(r.data, 0, 7) = monthKey
    IN  [entradas |->
             SumValor(SelectSeq(fTxs, LAMBDA t : lands(t) /\ t.tipo = "Receita"))
             + SumValor(SelectSeq(fFts, LAMBDA t : lands(t) /\ t.tipo = "Receita")),
         saidas |->
             SumValor(SelectSeq(fTxs, LAMBDA t : lands(t) /\ t.tipo # "Receita"))
             + SumValor(SelectSeq(fFts, LAMBDA t : lands(t) /\ t.tipo # "Receita")),
         investimentos |->
             SumValor(SelectSeq(fTxs, LAMBDA t : lands(t) /\ t.tipo # "Receita"
                                       /\ t.categoria = "Investimentos"))
             + SumValor(SelectSeq(fFts, LAMBDA t : lands(t) /\ t.tipo # "Receita"
                                         /\ t.categoria = "Investimentos")),
         investimentos_metas |-> SumValor(SelectSeq(fGts, lands))]

\* buildFinalBalanceData restarting the running balance from the opening
\* balance in every month
RECURSIVE buildFinalBalanceData_NoCarry(_, _, _, _, _, _)
buildFinalBalanceData_NoCarry(month, accumulated, selectedYear, fTxs, fGts, fFts) ==
    IF month > 12 THEN <<>>
    ELSE LET monthKey  == monthKeyOf(selectedYear, month)
             monthData == monthDataOf(monthKey, selectedYear, fTxs, fGts, fFts)
             saldo     == monthData.entradas - monthData.saidas
         IN  IF parseInt(substring(monthKey, 0, 4)) # selectedYear
             THEN buildFinalBalanceData_NoCarry(month + 1, accumulated, selectedYear,
                                                fTxs, fGts, fFts)
             ELSE <<[month               |-> monthLabelOf(selectedYear, month),
                     monthKey            |-> monthKey,
                     entradas            |-> monthData.entradas,
                     saidas              |-> monthData.saidas,
                     investimentos       |-> monthData.investimentos,
                     investimentos_metas |-> monthData.investimentos_metas,
                     saldo               |-> saldo,
                     saldo_acumulado     |-> accumulated + saldo]>>
                  \o buildFinalBalanceData_NoCarry(month + 1, accumulated,
                                                   selectedYear, fTxs, fGts, fFts)

\* the loop that builds finalBalanceData for the months month..12, accumulated
\* being the running balance before month
RECURSIVE buildFinalBalanceData(_, _, _, _, _, _)
buildFinalBalanceData(month, accumulated, selectedYear, fTxs, fGts, fFts) ==
    IF month > 12 THEN <<>>
    ELSE LET monthKey     == monthKeyOf(selectedYear, month)
             monthKeyYear == parseInt(substring(monthKey, 0, 4))
             monthData    == monthDataOf(monthKey, selectedYear, fTxs, fGts, fFts)
             saldo        == monthData.entradas - monthData.saidas
         IN  IF monthKeyYear # selectedYear
             THEN buildFinalBalanceData(month + 1, accumulated, selectedYear,
                                        fTxs, fGts, fFts)
             ELSE <<[month               |-> monthLabelOf(selectedYear, month),
                     monthKey            |-> monthKey,
                     entradas            |-> monthData.entradas,
                     saidas              |-> monthData.saidas,
                     investimentos       |-> monthData.investimentos,
                     investimentos_metas |-> monthData.investimentos_metas,
                     saldo               |-> saldo,
                     saldo_acumulado     |-> accumulated + saldo]>>
                  \o buildFinalBalanceData(month + 1, accumulated + saldo,
                                           selectedYear, fTxs, fGts, fFts)

getBalanceData(txs, gts, y, fts, td) ==
    LET selectedYear == selectedYearOf(y, td)
        finalBalanceData ==
            buildFinalBalanceData(1, initialAccumulatedOf(txs, selectedYear),
                                  selectedYear,
                                  filteredTransactionsOf(txs, selectedYear),
                                  filteredGoalTransactionsOf(gts, selectedYear),
                                  filteredForecastTransactionsOf(fts, selectedYear, td))
        verified ==
            SelectSeq(finalBalanceData,
                      LAMBDA item : parseInt(substring(item.monthKey, 0, 4)) = selectedYear)
    IN  IF Len(verified) = 12 THEN verified ELSE finalBalanceData

(***************************************************************************)
(* Inputs of the forecast generator                                        *)
(***************************************************************************)
MaxDefs == 2
MaxMonthsAhead == 3

\* the YYYY-MM-DD string the sheet stores for a calendar day
DateStr(y, m, d) ==
    padStart(String(y), 4, "0") \o Dash \o padStart(String(m), 2, "0")
                                \o Dash \o padStart(String(d), 2, "0")

\* `new Date()` on the given day; t = 0 at local midnight, 1 later in the day
Now(y, m, d, t) == [year |-> y, month |-> m - 1, date |-> d, time |-> t]

Variants == {"part_002", "part_003"}

ForecastTodays == {Now(2024, 1, 1, t) : t \in {0, 1}} \cup {Now(2024, 1, 31, t) : t \in {0, 1}}

StartDates == {DateStr(2024, 1, 1), DateStr(2024, 1, 31)}

UntilCancelled == [fim_tipo |-> "until_cancelled", meses_duracao |-> 0]
AfterMonths(n) == [fim_tipo |-> "after_months", meses_duracao |-> n]

\* the rows of 'transacoes_recorrentes', but for the id (the id is the row's
\* position).  Both variants test ativo before they read any other field, so
\* the inactive rows vary in their start date only.  'semanal' is a cadence
\* the sheet can hold and the generator does not know: fetchRecurringTransactions
\* casts the cell to RecurrenceType without looking at it.
RecurringRows ==
    [data_inicio : StartDates,
     recorrencia : {"mensal", "trimestral"},
     fim         : {UntilCancelled, AfterMonths(3)},
     ativo       : {TRUE}]
    \cup
    [data_inicio : {DateStr(2024, 1, 31)},
     recorrencia : {"semanal"},
     fim         : {UntilCancelled},
     ativo       : {TRUE}]
    \cup
    [data_inicio : StartDates,
     recorrencia : {"mensal"},
     fim         : {UntilCancelled},
     ativo       : {FALSE}]

RecurringOf(i, row) ==
    [id              |-> <<"r">> \o String(i),
     descricao       |-> "Aluguel",
     tipo            |-> "Despesa",
     valor           |-> 100,
     categoria       |-> "Moradia",
     forma_pagamento |-> "PIX",
     data_inicio     |-> row.data_inicio,
     recorrencia     |-> row.recorrencia,
     fim_tipo        |-> row.fim.fim_tipo,
     meses_duracao   |-> row.fim.meses_duracao,
     ativo           |-> row.ativo,
     observacao      |-> ""]

\* the lists of at most MaxDefs definitions with pairwise distinct ids
RecurringLists ==
    UNION {{[i \in 1..n |-> RecurringOf(i, rows[i])] : rows \in [1..n -> RecurringRows]}
           : n \in 0..MaxDefs}

(***************************************************************************)
(* One call of generateForecastTransactions                                *)
(***************************************************************************)
\* the parts of the state a specification does not use
NoLoop ==
    /\ loopDate = InvalidDate
    /\ loopCount = 0
    /\ pushed = 0

NoBalance ==
    /\ year = 0
    /\ transactions = <<>>
    /\ goalTransactions = <<>>
    /\ forecastTransactions = <<>>
    /\ bills = <<>>
    /\ balanceData = <<>>

NoGoals ==
    /\ metas = <<>>
    /\ movimentacoes_metas = <<>>
    /\ clock = 0
    /\ returned = FALSE

NoCategories ==
    /\ categories = <<>>
    /\ isConnected = FALSE
    /\ deletingId = <<>>
    /\ deleteCategoryCalls = <<>>
    /\ toast = ""

NoConnect ==
    /\ config = <<>>
    /\ isInitializing = FALSE
    /\ timer = FALSE
    /\ attempt = <<>>
    /\ autoConnectCalls = 0

NoToken ==
    /\ authStorage = <<>>
    /\ now = 0
    /\ tokenCall = <<>>
    /\ issued = 0

InitForecast ==
    /\ pc = "ready"
    /\ variant \in Variants
    /\ today \in ForecastTodays
    /\ monthsAhead \in 0..MaxMonthsAhead
    /\ recurringTransactions \in RecurringLists
    /\ forecasts = <<>>
    /\ NoLoop /\ NoBalance /\ NoGoals /\ NoCategories /\ NoConnect /\ NoToken

CallGenerateForecast ==
    /\ pc = "ready"
    /\ forecasts' = generateForecastTransactions(variant, recurringTransactions,
                                                 monthsAhead, today)
    /\ pc' = "done"
    /\ UNCHANGED <<variant, today, monthsAhead, recurringTransactions>>
    /\ UNCHANGED <<loopVars, balanceVars, goalVars, categoryVars>>
    /\ UNCHANGED <<connectVars, tokenVars>>

NextForecast == CallGenerateForecast

SpecForecast == InitForecast /\ [][NextForecast]_vars

(***************************************************************************)
(* The loop of generateForecastTransactions over one definition, one       *)
(* iteration at a time                                                     *)
(***************************************************************************)
\* a horizon of more months than the safety limit of part_002 has occurrences
LongHorizon == maxOccurrences + 1

\* one active definition starting today: a known cadence, a yearly one, an
\* unknown one; no end, an end after 3 months, and 'after_months' with the
\* duration missing
LoopRows ==
    [data_inicio : {DateStr(2024, 1, 1)},
     recorrencia : {"mensal", "anual", "semanal"},
     fim         : {UntilCancelled, AfterMonths(3), AfterMonths(0)},
     ativo       : {TRUE}]

InitLoop ==
    /\ pc = "ready"
    /\ variant \in Variants
    /\ today = Now(2024, 1, 1, 0)
    /\ monthsAhead \in {1, LongHorizon}
    /\ \E row \in LoopRows : recurringTransactions = <<RecurringOf(1, row)>>
    /\ forecasts = <<>>
    /\ NoLoop /\ NoBalance /\ NoGoals /\ NoCategories /\ NoConnect /\ NoToken

\* maxDate of part_002: the earlier of endDateLimit and endDate
maxDate_002(recurring, endDate) ==
    LET endDateLimit == addMonths_002(parseDateString(recurring.data_inicio),
                                      recurring.meses_duracao)
    IN  IF HasDuration(recurring) /\ DateLT(endDateLimit, endDate)
        THEN endDateLimit ELSE endDate

\* the statements before the loop: whether the definition is expanded at all,
\* and the loop's first date
BeginExpand ==
    /\ pc = "ready"
    /\ LET rt        == recurringTransactions[1]
           startDate == parseDateString(rt.data_inicio)
           endDate   == endDateOf(today, monthsAhead)
           skipped   ==
               \/ ~rt.ativo
               \/ /\ variant = "part_002"
                  /\ \/ DateGT(startDate, endDate)
                     \/ /\ HasDuration(rt)
                        /\ DateLT(addMonths_002(startDate, rt.meses_duracao), today)
       IN  /\ pc' = IF skipped THEN "done" ELSE "loop"
           /\ loopDate' = IF variant = "part_002" /\ ~DateGT(startDate, today)
                          THEN today ELSE startDate
    /\ loopCount' = 0
    /\ pushed' = 0
    /\ UNCHANGED <<forecastVars, balanceVars, goalVars, categoryVars>>
    /\ UNCHANGED <<connectVars, tokenVars>>

\* one test of the while condition of part_003 and, when it holds, one pass
\* through the body
Iterate_003 ==
    /\ pc = "loop"
    /\ variant = "part_003"
    /\ LET rt        == recurringTransactions[1]
           startDate == parseDateString(rt.data_inicio)
           endDate   == endDateOf(today, monthsAhead)
           monthsSinceStart ==
               (loopDate.year - startDate.year) * 12
                   + (loopDate.month - startDate.month)
       IN  IF \/ ~DateLE(loopDate, endDate)
              \/ HasDuration(rt) /\ monthsSinceStart >= rt.meses_duracao
           THEN pc' = "done" /\ UNCHANGED loopVars
           ELSE /\ pushed' = IF DateGE(loopDate, today) THEN pushed + 1 ELSE pushed
                /\ loopDate' = addMonths_003(loopDate, rt.recorrencia)
                /\ loopCount' = loopCount + 1
                /\ pc' = "loop"
    /\ UNCHANGED <<forecastVars, balanceVars, goalVars, categoryVars>>
    /\ UNCHANGED <<connectVars, tokenVars>>

\* the same for part_002, whose switch returns on an unknown cadence
Iterate_002 ==
    /\ pc = "loop"
    /\ variant = "part_002"
    /\ LET recurring == recurringTransactions[1]
           maxDate   == maxDate_002(recurring, endDateOf(today, monthsAhead))
       IN  IF ~(DateLE(loopDate, maxDate) /\ loopCount < maxOccurrences)
           THEN pc' = "done" /\ UNCHANGED loopVars
           ELSE /\ pushed' = pushed + 1
                /\ loopCount' = loopCount + 1
                /\ IF recurring.recorrencia \in DOMAIN RecurrenceStep_002
                   THEN /\ loopDate' = addMonths_002(loopDate,
                                            RecurrenceStep_002[recurring.recorrencia])
                        /\ pc' = "loop"
                   ELSE /\ loopDate' = loopDate
                        /\ pc' = "done"
    /\ UNCHANGED <<forecastVars, balanceVars, goalVars, categoryVars>>
    /\ UNCHANGED <<connectVars, tokenVars>>

NextLoop == BeginExpand \/ Iterate_003 \/ Iterate_002

SpecLoop == InitLoop /\ [][NextLoop]_vars

\* the loop is the only thing the call does: it is not starved
SpecLoopFair == SpecLoop /\ WF_vars(NextLoop)

(***************************************************************************)
(* Inputs of getBalanceData                                                *)
(***************************************************************************)
\* the records of the three input lists taken together
MaxRecords == 2

\* 0: the year argument omitted, or year 0 requested; 1 and -1: the years the
\* opening balance is not computed for; 10000: the first year with a five-digit
\* key
Years == {0 - 1, 0, 1, 2023, 2024, 2025, 10000}

BalanceTodays == {Now(2024, 3, 8, t) : t \in {0, 1}}

TransactionRows ==
    [data   : {DateStr(2022, 12, 31), DateStr(2023, 6, 15), DateStr(2024, 3, 8)},
     kind   : {[tipo |-> "Receita", valor |-> 2500, categoria |-> "Outros"],
               [tipo |-> "Despesa", valor |-> 1500, categoria |-> "Investimentos"],
               [tipo |-> "Despesa", valor |-> 800, categoria |-> "Moradia"]}]

TransactionOf(i, row) ==
    [id              |-> <<"t">> \o String(i),
     data            |-> row.data,
     tipo            |-> row.kind.tipo,
     descricao       |-> "Lancamento",
     valor           |-> row.kind.valor,
     categoria       |-> row.kind.categoria,
     forma_pagamento |-> "PIX",
     observacao      |-> ""]

GoalTransactionRows ==
    {[data |-> DateStr(2024, 3, 8), tipo |-> "deposito", valor |-> 200],
     [data |-> DateStr(2024, 3, 8), tipo |-> "saque", valor |-> 50]}

GoalTransactionOf(i, row) ==
    [id         |-> <<"g">> \o String(i),
     goal_id    |-> <<"m", "1">>,
     tipo       |-> row.tipo,
     valor      |-> row.valor,
     data       |-> row.data,
     observacao |-> ""]

\* occurrences as generateForecastTransactions builds them: before today, on
\* today's day, in a past year and in a future year
ForecastRows ==
    {[data |-> DateStr(2023, 6, 15), tipo |-> "Receita", valor |-> 300, categoria |-> "Outros"],
     [data |-> DateStr(2024, 3, 7), tipo |-> "Despesa", valor |-> 400, categoria |-> "Investimentos"],
     [data |-> DateStr(2024, 3, 8), tipo |-> "Receita", valor |-> 300, categoria |-> "Outros"],
     [data |-> DateStr(2025, 1, 10), tipo |-> "Despesa", valor |-> 400, categoria |-> "Moradia"]}

ForecastTransactionOf(i, row) ==
    [id              |-> <<"r", "1">> \o Dash \o String(i - 1),
     recurring_id    |-> <<"r", "1">>,
     data            |-> row.data,
     tipo            |-> row.tipo,
     descricao       |-> "Previsto",
     valor           |-> row.valor,
     categoria       |-> row.categoria,
     forma_pagamento |-> "PIX",
     observacao      |-> ""]

\* the lists of n records of each kind
TransactionLists(n) ==
    {[i \in 1..n |-> TransactionOf(i, rs[i])] : rs \in [1..n -> TransactionRows]}
GoalTransactionLists(n) ==
    {[i \in 1..n |-> GoalTransactionOf(i, rs[i])] : rs \in [1..n -> GoalTransactionRows]}
ForecastTransactionLists(n) ==
    {[i \in 1..n |-> ForecastTransactionOf(i, rs[i])] : rs \in [1..n -> ForecastRows]}

(***************************************************************************)
(* One call of getBalanceData                                              *)
(***************************************************************************)
InitBalance ==
    /\ pc = "ready"
    /\ variant = "part_003"
    /\ today \in BalanceTodays
    /\ monthsAhead = 0
    /\ recurringTransactions = <<>>
    /\ forecasts = <<>>
    /\ year \in Years
    /\ \E a, b, c \in 0..MaxRecords :
           /\ a + b + c <= MaxRecords
           /\ transactions \in TransactionLists(a)
           /\ goalTransactions \in GoalTransactionLists(b)
           /\ forecastTransactions \in ForecastTransactionLists(c)
    /\ bills = <<>>
    /\ balanceData = <<>>
    /\ NoLoop /\ NoGoals /\ NoCategories /\ NoConnect /\ NoToken

\* the call of BalanceChart and of useFinance: the bills are passed as a fifth
\* argument, for which getBalanceData has no parameter
CallGetBalanceData ==
    /\ pc = "ready"
    /\ balanceData' = getBalanceData(transactions, goalTransactions, year,
                                     forecastTransactions, today)
    /\ pc' = "done"
    /\ UNCHANGED <<year, transactions, goalTransactions, forecastTransactions, bills>>
    /\ UNCHANGED <<forecastVars, loopVars, goalVars, categoryVars>>
    /\ UNCHANGED <<connectVars, tokenVars>>

NextBalance == CallGetBalanceData

SpecBalance == InitBalance /\ [][NextBalance]_vars

(***************************************************************************)
(* One call of getBalanceData by a caller that holds bills                 *)
(***************************************************************************)
MaxBills == 2

\* data_pagamento: null of an unpaid bill
Null == <<>>

\* the rows of 'contas': paid in March 2024 after being due in February, or
\* unpaid and due in March 2024
BillRows ==
    [tipo : {"pagar", "receber"},
     paid : {[pago |-> TRUE, data_vencimento |-> DateStr(2024, 2, 10),
              data_pagamento |-> DateStr(2024, 3, 8)],
             [pago |-> FALSE, data_vencimento |-> DateStr(2024, 3, 8),
              data_pagamento |-> Null]}]

BillOf(i, row) ==
    [id              |-> <<"b">> \o String(i),
     tipo            |-> row.tipo,
     descricao       |-> "Conta",
     valor           |-> IF row.tipo = "receber" THEN 700 ELSE 600,
     categoria       |-> "Outros",
     data_vencimento |-> row.paid.data_vencimento,
     data_pagamento  |-> row.paid.data_pagamento,
     pago            |-> row.paid.pago,
     observacao      |-> ""]

BillLists(n) ==
    {[i \in 1..n |-> BillOf(i, rs[i])] : rs \in [1..n -> BillRows]}

InitBills ==
    /\ pc = "ready"
    /\ variant = "part_003"
    /\ today \in BalanceTodays
    /\ monthsAhead = 0
    /\ recurringTransactions = <<>>
    /\ forecasts = <<>>
    /\ year \in {0, 2024}
    /\ \E a \in 0..1 : transactions \in TransactionLists(a)
    /\ goalTransactions = <<>>
    /\ forecastTransactions = <<>>
    /\ \E d \in 0..MaxBills : bills \in BillLists(d)
    /\ balanceData = <<>>
    /\ NoLoop /\ NoGoals /\ NoCategories /\ NoConnect /\ NoToken

SpecBills == InitBills /\ [][NextBalance]_vars



(***************************************************************************)
(* One call of getBalanceData on a sheet that holds rows of the year 1     *)
(***************************************************************************)
\* rows dated in the year 1 ('0001-06-15') next to rows of 2024; the year
\* selector of BalanceChart offers every year a row is dated in
EarlyTransactionRows ==
    [data   : {DateStr(1, 6, 15), DateStr(2024, 3, 8)},
     kind   : {[tipo |-> "Receita", valor |-> 2500, categoria |-> "Outros"],
               [tipo |-> "Despesa", valor |-> 1500, categoria |-> "Investimentos"],
               [tipo |-> "Despesa", valor |-> 800, categoria |-> "Moradia"]}]

EarlyTransactionLists(n) ==
    {[i \in 1..n |-> TransactionOf(i, rs[i])] : rs \in [1..n -> EarlyTransactionRows]}

InitEarlyYears ==
    /\ pc = "ready"
    /\ variant = "part_003"
    /\ today \in BalanceTodays
    /\ monthsAhead = 0
    /\ recurringTransactions = <<>>
    /\ forecasts = <<>>
    /\ year \in {1, 2024}
    /\ \E a \in 0..MaxRecords : transactions \in EarlyTransactionLists(a)
    /\ goalTransactions = <<>>
    /\ \E c \in 0..1 : forecastTransactions \in ForecastTransactionLists(c)
    /\ bills = <<>>
    /\ balanceData = <<>>
    /\ NoLoop /\ NoGoals /\ NoCategories /\ NoConnect /\ NoToken

SpecEarlyYears == InitEarlyYears /\ [][NextBalance]_vars

(***************************************************************************)
(* The balance chart: useFinance expands the recurring definitions, and    *)
(* BalanceChart aggregates the lists of the context with the occurrences   *)
(***************************************************************************)
InitChart ==
    /\ pc = "ready"
    /\ variant \in Variants
    /\ today \in {Now(2024, 1, 31, t) : t \in {0, 1}}
    /\ monthsAhead \in 0..MaxMonthsAhead
    /\ recurringTransactions \in {l \in RecurringLists : Len(l) <= 1}
    /\ forecasts = <<>>
    /\ year \in {2023, 2024}
    /\ \E a, b \in 0..1 :
           /\ transactions \in TransactionLists(a)
           /\ goalTransactions \in GoalTransactionLists(b)
    /\ forecastTransactions = <<>>
    /\ bills = <<>>
    /\ balanceData = <<>>
    /\ NoLoop /\ NoGoals /\ NoCategories /\ NoConnect /\ NoToken

\* variant of RenderBalanceChart in which the year filter empties the caller's
\* transaction list of the other years
RenderBalanceChart_FilteringInPlace ==
    /\ pc = "done"
    /\ balanceData' = getBalanceData(transactions, goalTransactions, year,
                                     forecasts, today)
    /\ transactions' = filteredTransactionsOf(transactions, selectedYearOf(year, today))
    /\ pc' = "charted"
    /\ UNCHANGED <<year, goalTransactions, forecastTransactions, bills>>
    /\ UNCHANGED <<forecastVars, loopVars, goalVars, categoryVars>>
    /\ UNCHANGED <<connectVars, tokenVars>>

\* the balanceData memo of BalanceChart: the occurrences of the context are the
\* fourth argument of getBalanceData
RenderBalanceChart ==
    /\ pc = "done"
    /\ balanceData' = getBalanceData(transactions, goalTransactions, year,
                                     forecasts, today)
    /\ pc' = "charted"
    /\ UNCHANGED <<year, transactions, goalTransactions, forecastTransactions, bills>>
    /\ UNCHANGED <<forecastVars, loopVars, goalVars, categoryVars>>
    /\ UNCHANGED <<connectVars, tokenVars>>

NextChart == CallGenerateForecast \/ RenderBalanceChart

SpecChart == InitChart /\ [][NextChart]_vars

(***************************************************************************)
(* The page Categorias: deleting a category                                *)
(***************************************************************************)
MaxCategories == 3
MaxDeleteCalls == 2

CategoryNames == {"Moradia", "Outros", "Investimentos"}

CategoryOf(i, nome) ==
    [id |-> <<"c">> \o String(i), nome |-> nome, cor |-> "#000000"]

\* the lists of at most MaxCategories categories with pairwise distinct ids
CategoryLists ==
    UNION {{[i \in 1..n |-> CategoryOf(i, names[i])] : names \in [1..n -> CategoryNames]}
           : n \in 0..MaxCategories}

\* categories.find(c => c.id === id): the position of the first match, 0 for
\* undefined
FindCategory(cats, id) ==
    IF \E i \in 1..Len(cats) : cats[i].id = id
    THEN CHOOSE i \in 1..Len(cats) :
             cats[i].id = id /\ \A j \in 1..(i - 1) : cats[j].id # id
    ELSE 0

\* getCategoryTransactionCount answering 0 for every category
getCategoryTransactionCount_Zero(txs, categoryName) == 0

getCategoryTransactionCount(txs, categoryName) ==
    Len(SelectSeq(txs, LAMBDA t : t.categoria = categoryName))

\* the list without the row at position i (deleteFromSheet of row i - 1)
WithoutRow(rows, i) ==
    IF i \in 1..Len(rows)
    THEN SubSeq(rows, 1, i - 1) \o SubSeq(rows, i + 1, Len(rows))
    ELSE rows

InitCategories ==
    /\ pc = "ready"
    /\ variant = "part_003"
    /\ today = Now(2024, 3, 8, 0)
    /\ monthsAhead = 0
    /\ recurringTransactions = <<>>
    /\ forecasts = <<>>
    /\ year = 0
    /\ \E a \in 0..1 : transactions \in TransactionLists(a)
    /\ goalTransactions = <<>>
    /\ forecastTransactions = <<>>
    /\ bills = <<>>
    /\ balanceData = <<>>
    /\ categories \in CategoryLists
    /\ isConnected \in BOOLEAN
    /\ deletingId = Null
    /\ deleteCategoryCalls = <<>>
    /\ toast = ""
    /\ NoLoop /\ NoGoals /\ NoConnect /\ NoToken

\* 'Excluir' of a category's menu: setDeletingId(category.id)
OpenDeleteDialog ==
    /\ deletingId = Null
    /\ \E i \in 1..Len(categories) : deletingId' = categories[i].id
    /\ UNCHANGED <<categories, isConnected, deleteCategoryCalls, toast>>
    /\ UNCHANGED <<pc, forecastVars, loopVars, balanceVars, goalVars>>
    /\ UNCHANGED <<connectVars, tokenVars>>

\* 'Cancelar', or the dialog closed: setDeletingId(null)
CloseDeleteDialog ==
    /\ deletingId # Null
    /\ deletingId' = Null
    /\ UNCHANGED <<categories, isConnected, deleteCategoryCalls, toast>>
    /\ UNCHANGED <<pc, forecastVars, loopVars, balanceVars, goalVars>>
    /\ UNCHANGED <<connectVars, tokenVars>>

\* 'Excluir' of the dialog: handleDelete(deletingId), with the deleteCategory
\* of the context it calls.  Connected, sheetsService.deleteCategory deletes the
\* sheet row at the category's position, or fails, and loadData replaces the
\* list by the rows of the sheet unless there are none; not connected, the
\* category is filtered out of the list.
handleDelete ==
    /\ deletingId # Null
    /\ Len(deleteCategoryCalls) < MaxDeleteCalls
    /\ LET id               == deletingId
           found            == FindCategory(categories, id)
           transactionCount ==
               IF found # 0
               THEN getCategoryTransactionCount(transactions, categories[found].nome)
               ELSE 0
       IN  IF transactionCount > 0
           THEN /\ toast' = "in_use"
                /\ UNCHANGED <<categories, deleteCategoryCalls>>
           ELSE /\ deleteCategoryCalls' = Append(deleteCategoryCalls, id)
                /\ IF isConnected
                   THEN \E success \in BOOLEAN :
                            LET rows == WithoutRow(categories, found)
                            IN  /\ categories' = IF success /\ found # 0 /\ rows # <<>>
                                                 THEN rows ELSE categories
                                /\ toast' = IF success /\ found # 0
                                            THEN "deleted" ELSE "failed"
                   ELSE /\ categories' = SelectSeq(categories, LAMBDA c : c.id # id)
                        /\ toast' = "deleted"
    /\ deletingId' = Null
    /\ UNCHANGED isConnected
    /\ UNCHANGED <<pc, forecastVars, loopVars, balanceVars, goalVars>>
    /\ UNCHANGED <<connectVars, tokenVars>>

NextCategories == OpenDeleteDialog \/ CloseDeleteDialog \/ handleDelete

SpecCategories == InitCategories /\ [][NextCategories]_vars

(***************************************************************************)
(* Goal transactions on the sheets 'metas' and 'movimentacoes_metas'       *)
(* (addGoalTransaction, deleteGoalTransaction, recalculateGoalValue; the   *)
(* same in src/unnamed/part_002 and src/unnamed/part_003)                  *)
(***************************************************************************)
\* the calls of addGoalTransaction
MaxAdds == 2

GoalIds == {<<"m", "1">>, <<"m", "2">>}

\* parseFloat(s) || 0 on the cells the model writes, which hold integers
parseFloatOr0(s) == IF parseInt(s) = NaN THEN 0 ELSE parseInt(s)

\* the descending sort of fetchGoalTransactions, stable
RECURSIVE InsertByDateDesc(_, _)
InsertByDateDesc(x, s) ==
    IF s = <<>> THEN <<x>>
    ELSE IF DateGT(parseDateString(x.data), parseDateString(s[1].data)) THEN <<x>> \o s
    ELSE <<s[1]>> \o InsertByDateDesc(x, Tail(s))

RECURSIVE SortByDateDesc(_)
SortByDateDesc(s) ==
    IF s = <<>> THEN <<>>
    ELSE InsertByDateDesc(s[Len(s)], SortByDateDesc(SubSeq(s, 1, Len(s) - 1)))

\* fetchGoalTransactions: the rows of the goal, parsed, latest first
fetchGoalTransactions(goalId, rows) ==
    LET mine   == SelectSeq(rows, LAMBDA row : row.goal_id = goalId)
        parsed == [i \in 1..Len(mine) |->
                      [id         |-> mine[i].id,
                       goal_id    |-> mine[i].goal_id,
                       tipo       |-> mine[i].tipo,
                       valor      |-> parseFloatOr0(mine[i].valor),
                       data       |-> mine[i].data,
                       observacao |-> mine[i].observacao]]
    IN  SortByDateDesc(parsed)

\* findIndex + 1: the position of the first element with the id, 0 for none
FindById(list, id) ==
    IF \E i \in 1..Len(list) : list[i].id = id
    THEN CHOOSE i \in 1..Len(list) :
             list[i].id = id /\ \A j \in 1..(i - 1) : list[j].id # id
    ELSE 0

\* recalculateGoalValue: the rows of 'metas' it leaves.  outcome: every request
\* answered ("ok"), the read of the goal's transactions failed (caught by
\* fetchGoalTransactions, which then returns []), or a later request failed
\* (caught by recalculateGoalValue, which then writes nothing)
recalculateGoalValue(goalId, rows, goals, outcome) ==
    LET fetched == IF outcome = "fetch_failed" THEN <<>>
                   ELSE fetchGoalTransactions(goalId, rows)
        total == Sum([i \in 1..Len(fetched) |->
                         IF fetched[i].tipo = "deposito" THEN fetched[i].valor
                         ELSE 0 - fetched[i].valor])
        goalIndex == FindById(goals, goalId)
    IN  IF goalIndex = 0 \/ outcome = "update_failed" THEN goals
        ELSE [goals EXCEPT ![goalIndex].valor_atual =
                  String(IF total > 0 THEN total ELSE 0)]

Outcomes == {"ok", "fetch_failed", "update_failed"}

GoalOf(id) ==
    [id |-> id, nome |-> "Reserva", valor_alvo |-> <<"1", "0", "0", "0">>,
     valor_atual |-> <<"0">>, prazo |-> DateStr(2025, 12, 31), cor |-> "#000000"]

\* what the form submits: a deposit of 200 or a withdrawal of 50, on one of two
\* days
GoalTransactionInputs ==
    [goal_id : GoalIds,
     kind    : {[tipo |-> "deposito", valor |-> 200], [tipo |-> "saque", valor |-> 50]},
     data    : {DateStr(2024, 1, 5), DateStr(2024, 3, 8)}]

\* two goals without transactions
InitGoals ==
    /\ pc = "ready"
    /\ variant = "part_003"
    /\ today = Now(2024, 3, 8, 0)
    /\ monthsAhead = 0
    /\ recurringTransactions = <<>>
    /\ forecasts = <<>>
    /\ metas = <<GoalOf(<<"m", "1">>), GoalOf(<<"m", "2">>)>>
    /\ movimentacoes_metas = <<>>
    /\ clock = 0
    /\ returned = FALSE
    /\ NoLoop /\ NoBalance /\ NoCategories /\ NoConnect /\ NoToken

\* addGoalTransaction(transaction, credentials)
addGoalTransaction ==
    /\ clock < MaxAdds
    /\ \E transaction \in GoalTransactionInputs, appended \in BOOLEAN, outcome \in Outcomes :
           LET transactionData ==
                   [id         |-> String(clock + 1),
                    goal_id    |-> transaction.goal_id,
                    tipo       |-> transaction.kind.tipo,
                    valor      |-> String(transaction.kind.valor),
                    data       |-> transaction.data,
                    observacao |-> ""]
               rows == Append(movimentacoes_metas, transactionData)
           IN  IF appended
               THEN /\ movimentacoes_metas' = rows
                    /\ metas' = recalculateGoalValue(transaction.goal_id, rows, metas,
                                                     outcome)
                    /\ returned' = TRUE
               ELSE /\ outcome = "ok"
                    /\ returned' = FALSE
                    /\ UNCHANGED <<metas, movimentacoes_metas>>
    /\ clock' = clock + 1
    /\ UNCHANGED <<pc, forecastVars, loopVars, balanceVars, categoryVars>>
    /\ UNCHANGED <<connectVars, tokenVars>>

\* deleteGoalTransaction(id, goalId, transactions, credentials), called as
\* GoalTransactionsList does: for a goal, with the list fetchGoalTransactions
\* returned for it and the id of one of its elements.  deleteFromSheet deletes
\* the sheet row at the element's position in that list.
deleteGoalTransactionOf(id, goalId, deleted, outcome) ==
    LET list     == fetchGoalTransactions(goalId, movimentacoes_metas)
        rowIndex == FindById(list, id)
        rows     == WithoutRow(movimentacoes_metas, rowIndex)
    IN  /\ rowIndex # 0
        /\ IF deleted
           THEN /\ movimentacoes_metas' = rows
                /\ metas' = recalculateGoalValue(goalId, rows, metas, outcome)
                /\ returned' = TRUE
           ELSE /\ outcome = "ok"
                /\ returned' = FALSE
                /\ UNCHANGED <<metas, movimentacoes_metas>>
        /\ UNCHANGED <<clock, pc, forecastVars, loopVars, balanceVars, categoryVars>>
        /\ UNCHANGED <<connectVars, tokenVars>>

deleteGoalTransaction ==
    \E goalId \in GoalIds, deleted \in BOOLEAN, outcome \in Outcomes :
        \E k \in 1..Len(fetchGoalTransactions(goalId, movimentacoes_metas)) :
            deleteGoalTransactionOf(
                fetchGoalTransactions(goalId, movimentacoes_metas)[k].id,
                goalId, deleted, outcome)

NextGoals == addGoalTransaction \/ deleteGoalTransaction

SpecGoals == InitGoals /\ [][NextGoals]_vars


(***************************************************************************)
(* useFinance: connecting to the spreadsheet (connectToSheets and the      *)
(* auto-connect effect), with the credentials of useGoogleSheetsConfig     *)
(***************************************************************************)
MaxAutoConnects == 3

RECURSIVE trimStart(_)
trimStart(s) == IF s # <<>> /\ Head(s) = " " THEN trimStart(Tail(s)) ELSE s

RECURSIVE trimEnd(_)
trimEnd(s) ==
    IF s # <<>> /\ s[Len(s)] = " " THEN trimEnd(SubSeq(s, 1, Len(s) - 1)) ELSE s

trim(s) == trimEnd(trimStart(s))

\* isValid of useGoogleSheetsConfig: a config whose trimmed sheetsId has more
\* than 10 characters
isValid(cfg) == cfg # Null /\ Len(trim(cfg.sheetsId)) > 10

\* two spreadsheet ids of 12 characters, and one of 10 characters and a space
Configs ==
    {[sheetsId |-> <<"1", "A", "b", "C", "d", "E", "f", "G", "h", "I", "j", c>>]
         : c \in {"K", "L"}}
    \cup {[sheetsId |-> <<"1", "A", "b", "C", "d", "E", "f", "G", "h", "I", " ">>]}

NoAttempt == [by |-> "none", awaiting |-> "none"]

\* the auto-connect effect, run after a render in which one of config, isValid,
\* isConnected, isInitializing or connectToSheets changed: the pending timeout
\* is cleared, and a new one is set under the effect's condition
AutoConnectEffect(cfg, connected, initializing) ==
    cfg # Null /\ isValid(cfg) /\ ~connected /\ ~initializing

\* the hook after it is mounted and the stored credentials are loaded
InitConnect ==
    /\ pc = "ready"
    /\ variant = "part_003"
    /\ today = Now(2024, 3, 8, 0)
    /\ monthsAhead = 0
    /\ recurringTransactions = <<>>
    /\ forecasts = <<>>
    /\ config \in {Null} \cup Configs
    /\ isInitializing = FALSE
    /\ timer = AutoConnectEffect(config, FALSE, FALSE)
    /\ attempt = NoAttempt
    /\ autoConnectCalls = 0
    /\ NoLoop /\ NoBalance /\ NoGoals /\ NoCategories /\ NoToken

\* connectToSheets up to its first await, called by `by`; without valid
\* credentials it resolves at once to a failure with the message NoCredentials.
\* A call by handleConnect ends in a toast of the message it resolved to
\* (the messages are written here without their diacritics).
NoCredentials == "Configure as credenciais antes de conectar"
Connected == "Conexao estabelecida com sucesso!"
ConnectError == "Erro desconhecido"

connectToSheets(by) ==
    IF config = Null \/ ~isValid(config)
    THEN /\ toast' = IF by = "manual" THEN NoCredentials ELSE toast
         /\ UNCHANGED <<isInitializing, attempt, timer>>
    ELSE /\ isInitializing' = TRUE
         /\ attempt' = [by |-> by, awaiting |-> "testConnection"]
         /\ timer' = AutoConnectEffect(config, isConnected, TRUE)
         /\ UNCHANGED toast

\* the timeout of the auto-connect effect fires
AutoConnect ==
    /\ timer
    /\ autoConnectCalls < MaxAutoConnects
    /\ connectToSheets("auto")
    /\ autoConnectCalls' = autoConnectCalls + 1
    /\ UNCHANGED <<config, categories, isConnected, deletingId, deleteCategoryCalls>>
    /\ UNCHANGED <<pc, forecastVars, loopVars, balanceVars, goalVars, tokenVars>>

\* handleConnect of Configuracoes; the button is disabled while isInitializing
handleConnect ==
    /\ ~isInitializing
    /\ connectToSheets("manual")
    /\ autoConnectCalls' = 0
    /\ UNCHANGED <<config, categories, isConnected, deletingId, deleteCategoryCalls>>
    /\ UNCHANGED <<pc, forecastVars, loopVars, balanceVars, goalVars, tokenVars>>

\* testConnection reports success: connectToSheets goes on to
\* initializeSpreadsheetPublic
TestConnectionSucceeds ==
    /\ attempt.awaiting = "testConnection"
    /\ attempt' = [attempt EXCEPT !.awaiting = "initializeSpreadsheetPublic"]
    /\ UNCHANGED <<config, isInitializing, timer, autoConnectCalls, categoryVars>>
    /\ UNCHANGED <<pc, forecastVars, loopVars, balanceVars, goalVars, tokenVars>>

\* initializeSpreadsheetPublic reports success: setIsConnected(true), then the
\* finally block
ConnectSucceeds ==
    /\ attempt.awaiting = "initializeSpreadsheetPublic"
    /\ isConnected' = TRUE
    /\ isInitializing' = FALSE
    /\ attempt' = NoAttempt
    /\ timer' = AutoConnectEffect(config, TRUE, FALSE)
    /\ toast' = IF attempt.by = "manual" THEN Connected ELSE toast
    /\ UNCHANGED <<config, autoConnectCalls>>
    /\ UNCHANGED <<categories, deletingId, deleteCategoryCalls>>
    /\ UNCHANGED <<pc, forecastVars, loopVars, balanceVars, goalVars, tokenVars>>

\* either request fails or reports no success: the catch block, then the
\* finally block
ConnectFails ==
    /\ attempt.awaiting # "none"
    /\ isInitializing' = FALSE
    /\ attempt' = NoAttempt
    /\ timer' = AutoConnectEffect(config, isConnected, FALSE)
    /\ toast' = IF attempt.by = "manual" THEN ConnectError ELSE toast
    /\ UNCHANGED <<config, autoConnectCalls>>
    /\ UNCHANGED <<categories, isConnected, deletingId, deleteCategoryCalls>>
    /\ UNCHANGED <<pc, forecastVars, loopVars, balanceVars, goalVars, tokenVars>>

\* saveConfig(newConfig) of useGoogleSheetsConfig
saveConfig ==
    /\ \E newConfig \in Configs :
           /\ config' = newConfig
           /\ timer' = AutoConnectEffect(newConfig, isConnected, isInitializing)
    /\ autoConnectCalls' = 0
    /\ UNCHANGED <<isInitializing, attempt, categoryVars>>
    /\ UNCHANGED <<pc, forecastVars, loopVars, balanceVars, goalVars, tokenVars>>

\* clearConfig() of useGoogleSheetsConfig
clearConfig ==
    /\ config # Null
    /\ config' = Null
    /\ timer' = AutoConnectEffect(Null, isConnected, isInitializing)
    /\ autoConnectCalls' = 0
    /\ UNCHANGED <<isInitializing, attempt, categoryVars>>
    /\ UNCHANGED <<pc, forecastVars, loopVars, balanceVars, goalVars, tokenVars>>

NextConnect ==
    \/ AutoConnect
    \/ handleConnect
    \/ TestConnectionSucceeds
    \/ ConnectSucceeds
    \/ ConnectFails
    \/ saveConfig
    \/ clearConfig

SpecConnect == InitConnect /\ [][NextConnect]_vars


(***************************************************************************)
(* Google sign-in tokens (src/unnamed/part_002): getValidToken,            *)
(* saveAuthData, clearAuthData, isAuthenticated.  Times are Date.now()     *)
(* values in milliseconds; an access token is the number of its issue.     *)
(***************************************************************************)
MaxMinutes == 2
MaxLogins == 2

Minute == 60 * 1000

\* const buffer = 5 * 60 * 1000
buffer == 5 * 60 * 1000

\* what localStorage holds under 'google_auth_data': nothing, a string that is
\* no JSON, or the JSON of a GoogleAuthData
Absent == [kind |-> "absent"]
Garbage == [kind |-> "garbage"]
AuthData(token, expireAt) ==
    [kind |-> "auth", accessToken |-> token, expireAt |-> expireAt]

\* the message of the error thrown for a missing item
NotAuthenticated == "Nao autenticado. Faca login primeiro."
LoginRejected == "access_denied"

\* the expires_in of a token response: none (0), or 6 minutes
ExpiresIn == {0, 360}

\* variant of isStillValid without the buffer
isStillValid_NoBuffer(authData, t) == authData.expireAt > t

\* authData.expireAt > now + buffer
isStillValid(authData, t) == authData.expireAt > t + buffer

\* isAuthenticated(): getAuthData() is null for a missing item and for one
\* JSON.parse throws on
isAuthenticated(stored, t) ==
    IF stored.kind # "auth" THEN FALSE ELSE stored.expireAt > t + buffer

IdleCall ==
    [phase |-> "idle", stored |-> Absent, at |-> 0, logins |-> 0, result |-> 0,
     error |-> "", saved |-> Absent]

InitToken ==
    /\ pc = "ready"
    /\ variant = "part_002"
    /\ today = Now(2024, 3, 8, 0)
    /\ monthsAhead = 0
    /\ recurringTransactions = <<>>
    /\ forecasts = <<>>
    /\ authStorage \in {Absent, Garbage}
                       \cup {AuthData(0, m * Minute) : m \in {0, 5, 6, 60}}
    /\ now = 0
    /\ tokenCall = IdleCall
    /\ issued = 0
    /\ NoLoop /\ NoBalance /\ NoGoals /\ NoCategories /\ NoConnect

\* a minute passes
Tick ==
    /\ now < MaxMinutes * Minute
    /\ now' = now + Minute
    /\ UNCHANGED <<authStorage, tokenCall, issued>>
    /\ UNCHANGED <<pc, forecastVars, loopVars, balanceVars, goalVars, categoryVars,
                   connectVars>>

\* getValidToken() up to its first await, its return or its throw; no call is
\* started while one is waiting for a login
getValidToken ==
    /\ tokenCall.phase \in {"idle", "returned", "thrown"}
    /\ LET stored == authStorage
           call   == [IdleCall EXCEPT !.stored = stored, !.at = now]
       IN  tokenCall' =
               IF stored.kind = "absent"
               THEN [call EXCEPT !.phase = "thrown", !.error = NotAuthenticated]
               ELSE IF stored.kind = "garbage"
               THEN [call EXCEPT !.phase = "relogin", !.logins = 1]
               ELSE IF isStillValid(stored, now)
               THEN [call EXCEPT !.phase = "returned", !.result = stored.accessToken]
               ELSE [call EXCEPT !.phase = "login", !.logins = 1]
    /\ UNCHANGED <<authStorage, now, issued>>
    /\ UNCHANGED <<pc, forecastVars, loopVars, balanceVars, goalVars, categoryVars,
                   connectVars>>

\* initializeGoogleAPI and loginWithGoogle resolve: saveAuthData(newAuthData),
\* return newAuthData.accessToken
LoginResolves ==
    /\ tokenCall.phase \in {"login", "relogin"}
    /\ issued < MaxLogins
    /\ \E expires_in \in ExpiresIn :
           LET expiresIn   == IF expires_in = 0 THEN 3600 ELSE expires_in
               newAuthData == AuthData(issued + 1, now + expiresIn * 1000)
           IN  /\ authStorage' = newAuthData
               /\ tokenCall' = [tokenCall EXCEPT !.phase = "returned",
                                                 !.result = newAuthData.accessToken,
                                                 !.saved = newAuthData]
    /\ issued' = issued + 1
    /\ UNCHANGED now
    /\ UNCHANGED <<pc, forecastVars, loopVars, balanceVars, goalVars, categoryVars,
                   connectVars>>

\* initializeGoogleAPI or loginWithGoogle rejects: in the try block the catch
\* block starts a second login, in the catch block the error leaves the call
LoginRejects ==
    /\ tokenCall.phase \in {"login", "relogin"}
    /\ tokenCall' =
           IF tokenCall.phase = "login"
           THEN [tokenCall EXCEPT !.phase = "relogin", !.logins = @ + 1]
           ELSE [tokenCall EXCEPT !.phase = "thrown", !.error = LoginRejected]
    /\ UNCHANGED <<authStorage, now, issued>>
    /\ UNCHANGED <<pc, forecastVars, loopVars, balanceVars, goalVars, categoryVars,
                   connectVars>>

\* clearAuthData()
clearAuthData ==
    /\ authStorage # Absent
    /\ authStorage' = Absent
    /\ UNCHANGED <<now, tokenCall, issued>>
    /\ UNCHANGED <<pc, forecastVars, loopVars, balanceVars, goalVars, categoryVars,
                   connectVars>>

NextToken ==
    \/ Tick
    \/ getValidToken
    \/ LoginResolves
    \/ LoginRejects
    \/ clearAuthData

SpecToken == InitToken /\ [][NextToken]_vars

(***************************************************************************)
(* Properties of generateForecastTransactions                              *)
(***************************************************************************)
\* a Date as a calendar day, the time of day dropped
CalKey(dt) == (dt.year * 12 + dt.month) * 32 + dt.date

\* dt plus n calendar months: the day of month kept, or clamped to the last
\* day of the target month
ClampedAddMonths(dt, n) ==
    LET ty == dt.year + ((dt.month + n) \div 12)
        tm == (dt.month + n) % 12
        td == IF dt.date < DaysInMonth(ty, tm) THEN dt.date ELSE DaysInMonth(ty, tm)
    IN  [year |-> ty, month |-> tm, date |-> td, time |-> 0]

\* the positions of the occurrences expanded from the definition with this id
OccurrencesOf(id) == {k \in 1..Len(forecasts) : forecasts[k].recurring_id = id}

\* the position of the definition an occurrence was expanded from
DefIndex(f) == CHOOSE i \in 1..Len(recurringTransactions) :
                   recurringTransactions[i].id = f.recurring_id

\* C1: every returned occurrence is dated, as a calendar day, from today up to
\* today plus monthsAhead calendar months (day of month kept or clamped).
C1_ForecastWithinHorizon ==
    pc = "done" =>
        \A k \in 1..Len(forecasts) :
            LET d == parseDateString(forecasts[k].data)
            IN  /\ CalKey(today) <= CalKey(d)
                /\ CalKey(d) <= CalKey(ClampedAddMonths(today, monthsAhead))

\* C2: with today <= 2024-01-31, an active monthly definition starting on
\* 2024-01-31 yields 2024-02-29 and 2024-03-31 once the horizon covers them,
\* and never the rolled-over 2024-03-02 nor the drifted 2024-03-29.
C2_MonthEndClamping ==
    pc = "done" /\ CalKey(today) <= CalKey(parseDateString(DateStr(2024, 1, 31))) =>
        \A i \in 1..Len(recurringTransactions) :
            LET rt    == recurringTransactions[i]
                dates == {forecasts[k].data : k \in OccurrencesOf(rt.id)}
            IN  (/\ rt.ativo
                 /\ rt.recorrencia = "mensal"
                 /\ rt.fim_tipo = "until_cancelled"
                 /\ rt.data_inicio = DateStr(2024, 1, 31))
                => /\ DateStr(2024, 3, 2) \notin dates
                   /\ DateStr(2024, 3, 29) \notin dates
                   /\ (CalKey(ClampedAddMonths(today, monthsAhead))
                           >= CalKey(parseDateString(DateStr(2024, 3, 31)))
                       => /\ DateStr(2024, 2, 29) \in dates
                          /\ DateStr(2024, 3, 31) \in dates)

\* C3: a definition ending after n >= 1 months has no occurrence whose elapsed
\* whole months since data_inicio are n or more.
C3_AfterMonthsCutoff ==
    pc = "done" =>
        \A i \in 1..Len(recurringTransactions) :
            LET rt == recurringTransactions[i]
                s  == parseDateString(rt.data_inicio)
            IN  rt.fim_tipo = "after_months" /\ rt.meses_duracao >= 1
                => \A k \in OccurrencesOf(rt.id) :
                       LET d == parseDateString(forecasts[k].data)
                       IN  (d.year - s.year) * 12 + (d.month - s.month) < rt.meses_duracao

\* C8: no returned occurrence carries the id of an inactive definition.
C8_InactiveNeverExpanded ==
    pc = "done" =>
        \A i \in 1..Len(recurringTransactions) :
            ~recurringTransactions[i].ativo
                => OccurrencesOf(recurringTransactions[i].id) = {}

\* an inactive definition that would have occurrences in the window, next to an
\* active one that has some
C8_Witness ==
    /\ pc = "done"
    /\ forecasts # <<>>
    /\ \E i \in 1..Len(recurringTransactions) :
           /\ ~recurringTransactions[i].ativo
           /\ generateForecastTransactions(
                  variant,
                  <<[recurringTransactions[i] EXCEPT !.ativo = TRUE]>>,
                  monthsAhead, today) # <<>>

\* C9: the result is in ascending date order, and occurrences of the same date
\* are in the order of their definitions in the input list.
C9_SortedStable ==
    pc = "done" =>
        \A a, b \in 1..Len(forecasts) :
            a < b =>
                LET da == CalKey(parseDateString(forecasts[a].data))
                    db == CalKey(parseDateString(forecasts[b].data))
                IN  /\ da <= db
                    /\ (da = db => DefIndex(forecasts[a]) <= DefIndex(forecasts[b]))

\* two definitions with an occurrence on the same day, and a later definition
\* with an occurrence earlier than one of an earlier definition
C9_Witness ==
    /\ pc = "done"
    /\ \E a, b \in 1..Len(forecasts) :
           /\ a < b
           /\ forecasts[a].data = forecasts[b].data
           /\ forecasts[a].recurring_id # forecasts[b].recurring_id
    /\ \E a, b \in 1..Len(forecasts) :
           /\ DefIndex(forecasts[a]) > DefIndex(forecasts[b])
           /\ StrLT(forecasts[a].data, forecasts[b].data)

\* the cadences of RecurrenceType
KnownRecurrences == {"mensal", "bimestral", "trimestral", "semestral", "anual"}

\* C19: an active definition whose recorrencia is none of the known cadences
\* produces no occurrence at all, and the other definitions are expanded as
\* they are without it.
C19_UnknownRecurrenceSkipped ==
    pc = "done" =>
        /\ \A i \in 1..Len(recurringTransactions) :
               LET rt == recurringTransactions[i]
               IN  rt.ativo /\ rt.recorrencia \notin KnownRecurrences
                       => OccurrencesOf(rt.id) = {}
        /\ SelectSeq(forecasts,
                     LAMBDA f : recurringTransactions[DefIndex(f)].recorrencia
                                    \in KnownRecurrences)
               = generateForecastTransactions(
                     variant,
                     SelectSeq(recurringTransactions,
                               LAMBDA rt : rt.recorrencia \in KnownRecurrences),
                     monthsAhead, today)

\* C20: the expansion of a definition ends for every input, and it pushes at
\* most 1000 occurrences, also for an unknown cadence and for 'after_months'
\* without a duration.
C20_AtMostThousand == pushed <= maxOccurrences

\* the first half of C20 alone: the expansion of the definition ends
ExpandTerminates == <>(pc = "done")

\* the loop and the recursive expansion agree on a horizon of one month
LoopAgrees ==
    pc = "done" /\ monthsAhead < LongHorizon =>
        pushed = Len(generateForecastTransactions(variant, recurringTransactions,
                                                  monthsAhead, today))


\* C21: an active definition without end, of a known cadence, whose data_inicio
\* is today's calendar date has an occurrence dated today, at whatever time of
\* day the call is made; and no occurrence is dated before today.
C21_TodayEmitted ==
    pc = "done" =>
        /\ \A i \in 1..Len(recurringTransactions) :
               LET rt == recurringTransactions[i]
               IN  (/\ rt.ativo
                    /\ rt.fim_tipo = "until_cancelled"
                    /\ rt.recorrencia \in KnownRecurrences
                    /\ CalKey(parseDateString(rt.data_inicio)) = CalKey(today))
                   => \E k \in OccurrencesOf(rt.id) : forecasts[k].data = rt.data_inicio
        /\ \A k \in 1..Len(forecasts) :
               CalKey(parseDateString(forecasts[k].data)) >= CalKey(today)


\* C22: a definition with fim_tipo 'after_months' and meses_duracao 0 emits no
\* occurrence: its loop never pushes.
C22_ZeroDurationEmitsNothing ==
    LET rt == recurringTransactions[1]
    IN  pc # "ready" /\ rt.fim_tipo = "after_months" /\ rt.meses_duracao = 0
            => pushed = 0


\* C25: on definitions with pairwise distinct ids, the returned occurrences have
\* pairwise distinct ids, and the occurrences carrying a definition's id as
\* recurring_id are the ones that definition is expanded to.
C25_UniqueIds ==
    pc = "done" =>
        /\ \A j, k \in 1..Len(forecasts) : j # k => forecasts[j].id # forecasts[k].id
        /\ \A k \in 1..Len(forecasts) :
               \E i \in 1..Len(recurringTransactions) :
                   recurringTransactions[i].id = forecasts[k].recurring_id
        /\ \A i \in 1..Len(recurringTransactions) :
               SelectSeq(forecasts,
                         LAMBDA f : f.recurring_id = recurringTransactions[i].id)
                   = generateForecastTransactions(variant, <<recurringTransactions[i]>>,
                                                  monthsAhead, today)

\* two definitions with occurrences on the same day, one of them with more than
\* one occurrence
C25_Witness ==
    /\ pc = "done"
    /\ \E j, k \in 1..Len(forecasts) :
           /\ forecasts[j].data = forecasts[k].data
           /\ forecasts[j].recurring_id # forecasts[k].recurring_id
    /\ \E j, k \in 1..Len(forecasts) :
           /\ j # k
           /\ forecasts[j].recurring_id = forecasts[k].recurring_id


\* C26: for a definition with a known cadence whose data_inicio is before
\* today, every occurrence is dated data_inicio plus k steps of the cadence,
\* for some whole k >= 0.
C26_OwnSchedule ==
    pc = "done" =>
        \A k \in 1..Len(forecasts) :
            LET rt     == recurringTransactions[DefIndex(forecasts[k])]
                start  == parseDateString(rt.data_inicio)
                d      == parseDateString(forecasts[k].data)
                months == (d.year * 12 + d.month) - (start.year * 12 + start.month)
            IN  (rt.recorrencia \in KnownRecurrences /\ CalKey(start) < CalKey(today))
                => \E n \in 0..months :
                       CalKey(d) = CalKey(ClampedAddMonths(
                                              start, n * recurrenceMonths[rt.recorrencia]))

(***************************************************************************)
(* Properties of getBalanceData                                            *)
(***************************************************************************)
\* the year and the month a YYYY-MM-DD string is dated in
YearOfStr(str) == DigitsValue(SubSeq(str, 1, 4))
MonthOfStr(str) == DigitsValue(SubSeq(str, 6, 7))

\* income minus expense over the realized transactions dated in year y
NetOfYear(txs, y) ==
    Sum([i \in 1..Len(txs) |->
            IF YearOfStr(txs[i].data) # y THEN 0
            ELSE IF txs[i].tipo = "Receita" THEN txs[i].valor
            ELSE 0 - txs[i].valor])

\* the year the call aggregates
SelectedYear == selectedYearOf(year, today)

\* the balance the running balance of a twelve-month result starts from
OpeningOf(result) == result[1].saldo_acumulado - result[1].saldo

DatedIn(list, y) == {i \in 1..Len(list) : YearOfStr(list[i].data) = y}

\* C4: for every year argument, the result has exactly 12 entries keyed
\* '<year>-01' .. '<year>-12' in this order.
C4_TwelveMonthKeys ==
    pc = "done" =>
        /\ Len(balanceData) = 12
        /\ \A i \in 1..Len(balanceData) :
               balanceData[i].monthKey
                   = String(year) \o Dash \o padStart(String(i), 2, "0")

C6_YearContinuity ==
    pc = "done" /\ Len(balanceData) = 12 /\ SelectedYear < today.year
                /\ SelectedYear + 1 # 0 /\ forecastTransactions = <<>> =>
        balanceData[12].saldo_acumulado
            = OpeningOf(getBalanceData(transactions, goalTransactions,
                                       SelectedYear + 1, forecastTransactions, today))

C14_PastYearIgnoresForecasts ==
    pc = "done" /\ SelectedYear < today.year =>
        balanceData = getBalanceData(transactions, goalTransactions, year, <<>>, today)

\* a past year aggregated with a forecast occurrence dated in it
C14_Witness ==
    /\ pc = "done"
    /\ Len(balanceData) = 12
    /\ SelectedYear < today.year
    /\ DatedIn(forecastTransactions, SelectedYear) # {}

\* the amounts of the records of list dated in month m of year y, income
\* (tipo 'Receita') or expense
AmountIn(list, y, m, income) ==
    Sum([i \in 1..Len(list) |->
            IF /\ YearOfStr(list[i].data) = y
               /\ MonthOfStr(list[i].data) = m
               /\ (list[i].tipo = "Receita") = income
            THEN list[i].valor ELSE 0])

\* the forecast occurrences whose calendar date is today's or later
FromTodayOn(fts) ==
    SelectSeq(fts, LAMBDA f : CalKey(parseDateString(f.data)) >= CalKey(today))

\* C15: when the aggregated year is the current year, exactly the forecast
\* occurrences of that year dated today or later are counted: each month's
\* entradas and saidas are the realized amounts plus the amounts of those
\* occurrences, an occurrence dated today included and one dated before today
\* excluded.
C15_CurrentYearFromToday ==
    pc = "done" /\ Len(balanceData) = 12 /\ SelectedYear = today.year =>
        \A m \in 1..12 :
            /\ balanceData[m].entradas
                   = AmountIn(transactions, SelectedYear, m, TRUE)
                     + AmountIn(FromTodayOn(forecastTransactions), SelectedYear, m, TRUE)
            /\ balanceData[m].saidas
                   = AmountIn(transactions, SelectedYear, m, FALSE)
                     + AmountIn(FromTodayOn(forecastTransactions), SelectedYear, m, FALSE)

\* the deposits of the goal transactions dated in month m of year y
DepositsIn(gts, y, m) ==
    Sum([i \in 1..Len(gts) |->
            IF /\ YearOfStr(gts[i].data) = y
               /\ MonthOfStr(gts[i].data) = m
               /\ gts[i].tipo = "deposito"
            THEN gts[i].valor ELSE 0])

C17_RunningBalance ==
    pc = "done" =>
        \A i \in 1..Len(balanceData) :
            /\ balanceData[i].saldo = balanceData[i].entradas - balanceData[i].saidas
            /\ balanceData[i].saldo_acumulado
                   = (IF i = 1 THEN initialAccumulatedOf(transactions, SelectedYear)
                      ELSE balanceData[i - 1].saldo_acumulado)
                     + balanceData[i].saldo

\* a non-zero opening balance and a month after January with a non-zero saldo,
\* carried from that month to December
C17_Witness ==
    /\ pc = "done"
    /\ Len(balanceData) = 12
    /\ initialAccumulatedOf(transactions, SelectedYear) # 0
    /\ \E i \in 2..11 :
           /\ balanceData[i].saldo # 0
           /\ balanceData[i - 1].saldo_acumulado
                  = initialAccumulatedOf(transactions, SelectedYear)
           /\ balanceData[12].saldo_acumulado
                  = initialAccumulatedOf(transactions, SelectedYear)
                    + balanceData[i].saldo

\* C18: for every requested year <= 1, year 0 and the negative years included,
\* the call aggregates that requested year, with an opening balance of zero.
C18_EarlyYears ==
    pc = "done" /\ year <= 1 =>
        /\ Len(balanceData) = 12
        /\ \A m \in 1..Len(balanceData) :
               /\ balanceData[m].monthKey = monthKeyOf(year, m)
               /\ balanceData[m].entradas
                      = AmountIn(transactions, year, m, TRUE)
                        + AmountIn(forecastTransactions, year, m, TRUE)
        /\ OpeningOf(balanceData) = 0

\* the amounts of the bills of the given tipo marked paid, with a payment date
\* in month m of year y
PaidBillsIn(bs, tipo, y, m) ==
    Sum([i \in 1..Len(bs) |->
            IF /\ bs[i].pago
               /\ bs[i].data_pagamento # Null
               /\ YearOfStr(bs[i].data_pagamento) = y
               /\ MonthOfStr(bs[i].data_pagamento) = m
               /\ bs[i].tipo = tipo
            THEN bs[i].valor ELSE 0])

\* C11: a bill passed to getBalanceData with pago = true and a data_pagamento in
\* the aggregated year adds its valor to the entradas (tipo 'receber') or the
\* saidas (tipo 'pagar') of the month of its payment date, not of its due date;
\* a bill with pago = false changes nothing.
C11_PaidBillsCounted ==
    pc = "done" /\ Len(balanceData) = 12 /\ forecastTransactions = <<>> =>
        \A m \in 1..12 :
            /\ balanceData[m].entradas
                   = AmountIn(transactions, SelectedYear, m, TRUE)
                     + PaidBillsIn(bills, "receber", SelectedYear, m)
            /\ balanceData[m].saidas
                   = AmountIn(transactions, SelectedYear, m, FALSE)
                     + PaidBillsIn(bills, "pagar", SelectedYear, m)

\* the category of the open dialog is used by a loaded transaction
DeletingUsedCategory ==
    \E i \in 1..Len(categories) :
        /\ categories[i].id = deletingId
        /\ \E k \in 1..Len(transactions) : transactions[k].categoria = categories[i].nome

\* C13: a category whose name is used by at least one loaded transaction cannot
\* be deleted: no step taken while its dialog is open, handleDelete included,
\* calls deleteCategory or changes the category list.
C13_UsedCategoryKept ==
    [][DeletingUsedCategory =>
           /\ deleteCategoryCalls' = deleteCategoryCalls
           /\ categories' = categories]_vars

\* handleDelete has refused a category that a loaded transaction uses: the
\* category is still listed and deleteCategory was never called
C13_Witness ==
    /\ toast = "in_use"
    /\ deletingId = Null
    /\ deleteCategoryCalls = <<>>
    /\ \E i \in 1..Len(categories) :
           \E k \in 1..Len(transactions) : transactions[k].categoria = categories[i].nome

\* deposits minus withdrawals over the rows of 'movimentacoes_metas' of a goal
NetOfGoal(goalId) ==
    Sum([i \in 1..Len(movimentacoes_metas) |->
            IF movimentacoes_metas[i].goal_id # goalId THEN 0
            ELSE IF movimentacoes_metas[i].tipo = "deposito"
                 THEN Number(movimentacoes_metas[i].valor)
            ELSE 0 - Number(movimentacoes_metas[i].valor)])

\* C12: after any sequence of addGoalTransaction and deleteGoalTransaction
\* calls that return true (a call that returns false changes no sheet), every
\* goal's stored valor_atual is max(0, deposits - withdrawals) over the rows of
\* 'movimentacoes_metas' with its goal_id.
C12_GoalValueFromRows ==
    \A g \in 1..Len(metas) :
        Number(metas[g].valor_atual)
            = (IF NetOfGoal(metas[g].id) > 0 THEN NetOfGoal(metas[g].id) ELSE 0)

\* C23: a call that returns has built exactly 12 entries whose monthKey carries
\* the aggregated year; a list that is anything else is never handed back to
\* the caller.
C23_MalformedNeverReturned ==
    pc = "done" =>
        /\ Len(balanceData) = 12
        /\ \A i \in 1..Len(balanceData) :
               parseInt(substring(balanceData[i].monthKey, 0, 4)) = SelectedYear

TotalOf(list, income) ==
    Sum([i \in 1..Len(list) |->
            IF (list[i].tipo = "Receita") = income THEN list[i].valor ELSE 0])

\* the realized transactions dated in the aggregated year
RealizedInYear ==
    SelectSeq(transactions, LAMBDA t : YearOfStr(t.data) = SelectedYear)

\* C30: over the 12 returned months, the entradas add up to the 'Receita'
\* amounts of the realized transactions of the aggregated year plus those of the
\* retained forecast occurrences, and the saidas to the amounts of the others.
C30_NoAmountLost ==
    pc = "done" /\ Len(balanceData) = 12 =>
        LET retained == filteredForecastTransactionsOf(forecastTransactions,
                                                       SelectedYear, today)
        IN  /\ Sum([m \in 1..12 |-> balanceData[m].entradas])
                   = TotalOf(RealizedInYear, TRUE) + TotalOf(retained, TRUE)
            /\ Sum([m \in 1..12 |-> balanceData[m].saidas])
                   = TotalOf(RealizedInYear, FALSE) + TotalOf(retained, FALSE)

\* the ids addGoalTransaction can have given to a row
GoalTransactionIds == {String(c) : c \in 1..MaxAdds}

\* C27: a deleteGoalTransaction(id, goalId, list) call that deletes, made with
\* the list fetched for goalId, leaves on 'movimentacoes_metas' the rows it held
\* but for the row with this id, in their order.
C27_DeletesTheRowWithId ==
    [][\A goalId \in GoalIds, id \in GoalTransactionIds :
           (\E outcome \in Outcomes : deleteGoalTransactionOf(id, goalId, TRUE, outcome))
               => movimentacoes_metas'
                      = SelectSeq(movimentacoes_metas, LAMBDA row : row.id # id)]_vars

\* C28: with credentials that stay as they are and a user who does not connect
\* by hand, the auto-connect effect calls connectToSheets at most once, whatever
\* the answer to the call.
C28_AutoConnectOnce == autoConnectCalls <= 1

FiveMinutes == 5 * 60 * 1000

====
